---- MODULE Spec2Model ----
(***************************************************************************)
(* Model of simulation_with_jd.py: annualize_returns (lines 201-237) and   *)
(* simulate_asset_class_returns_jsu (lines 241-291).                       *)
(*                                                                         *)
(* Real numbers are fixed-point integers with unit 1/Scale; a float that   *)
(* is NaN is the record NaN.  Products are truncated to the unit.          *)
(***************************************************************************)
EXTENDS Integers, Sequences, FiniteSets, TLC

\* ------------------------------------------------------------------ bounds
MaxLen == 3
MaxCols == 2
MaxSims == 2
MaxYears == 2
MaxSeed == 0
MaxAmbient == 1
RngMod == 8

\* ------------------------------------------------------- program constants
MonthsPerYear == 12
DaysPerYear == 252
QuartersPerYear == 4
SampleMonths == 12
Decimals == 2

\* ------------------------------------------------------ fixed-point reals
Scale == 1000 * 1000

Num(x) == [nan |-> FALSE, v |-> x]

NaN == [nan |-> TRUE, v |-> 0]

Abs(x) == IF x < 0 THEN -x ELSE x

Max(a, b) == IF a < b THEN b ELSE a

RECURSIVE Gcd(_, _)
Gcd(a, b) == IF b = 0 THEN a ELSE Gcd(b, a % b)

RECURSIVE TenTo(_)
TenTo(k) == IF k = 0 THEN 1 ELSE 10 * TenTo(k - 1)

\* float multiplication, a * b
MulFix(a, b) ==
    LET x  == Abs(a)
        y  == Abs(b)
        xh == x \div 1000
        xl == x % 1000
        yh == y \div 1000
        yl == y % 1000
        m  == xh * yh + (xh * yl + xl * yh) \div 1000 + (xl * yl) \div Scale
    IN  IF (a < 0) = (b < 0) THEN m ELSE -m

\* float power with an integer-valued exponent p >= 0
RECURSIVE IntPow(_, _)
IntPow(g, p) ==
    IF p = 0 THEN Scale
    ELSE LET h == IntPow(g, p \div 2)
             s == MulFix(h, h)
         IN  IF p % 2 = 0 THEN s ELSE MulFix(s, g)

\* q-th root of g >= 0: the largest y in lo..hi with y^q <= g
RECURSIVE RootIn(_, _, _, _)
RootIn(g, q, lo, hi) ==
    IF lo = hi THEN lo
    ELSE LET mid == (lo + hi + 1) \div 2
         IN  IF IntPow(mid, q) <= g THEN RootIn(g, q, mid, hi)
                                    ELSE RootIn(g, q, lo, mid - 1)

Root(g, q) == RootIn(g, q, 0, Max(g, Scale))

\* numpy float power  g ** (num / den), den >= 1: a negative base with a
\* non-integer exponent is NaN
Power(g, num, den) ==
    LET d == Gcd(num, den)
        p == num \div d
        q == den \div d
    IN  IF q = 1 THEN Num(IntPow(g, p))
        ELSE IF g < 0 THEN NaN
        ELSE Num(IntPow(Root(g, q), p))

\* np.round(x, decimals): round half to even, x / d to the nearest integer
RoundHalfEven(x, d) ==
    LET q == x \div d
        r == x % d
    IN  IF 2 * r < d THEN q
        ELSE IF 2 * r > d THEN q + 1
        ELSE IF q % 2 = 0 THEN q ELSE q + 1

\* the unit of a value rounded to Decimals places
RoundUnit == Scale \div TenTo(Decimals)

Round2(x) ==
    IF x.nan THEN NaN ELSE Num(RoundHalfEven(x.v, RoundUnit) * RoundUnit)

\* ------------------------------------------------------ annualize_returns
Frequencies == {"M", "D", "Q", "W"}

Supported == {"M", "D", "Q"}

PeriodsPerYear(frequency) ==
    IF frequency = "M" THEN MonthsPerYear
    ELSE IF frequency = "D" THEN DaysPerYear
    ELSE QuartersPerYear

\* (returns + 1).prod() over the first k rows
RECURSIVE GrowthUpTo(_, _)
GrowthUpTo(returns, k) ==
    IF k = 0 THEN Scale
    ELSE MulFix(GrowthUpTo(returns, k - 1), returns[k] + Scale)

CompoundedGrowth(returns) == GrowthUpTo(returns, Len(returns))

\* the annualization without the subtraction of 1
AnnualizedPctKeepsOne(returns, frequency) ==
    LET p == Power(CompoundedGrowth(returns), PeriodsPerYear(frequency),
                   Len(returns))
    IN  IF p.nan THEN NaN ELSE Num(p.v * 100)

\* compounded_growth ** (periods_per_year / n_periods) - 1, times 100
AnnualizedPct(returns, frequency) ==
    LET p == Power(CompoundedGrowth(returns), PeriodsPerYear(frequency),
                   Len(returns))
    IN  IF p.nan THEN NaN ELSE Num((p.v - Scale) * 100)

Returned(x) == [exc |-> "none", val |-> x]

Raised(e) == [exc |-> e, val |-> NaN]

\* annualize_returns without the np.round of line 237
AnnualizeReturnsUnrounded(returns, frequency) ==
    IF frequency \notin Supported THEN Raised("ValueError: unsupported frequency")
    ELSE IF Len(returns) = 0 THEN Raised("ZeroDivisionError")
    ELSE Returned(AnnualizedPct(returns, frequency))

AnnualizeReturns(returns, frequency) ==
    IF frequency \notin Supported THEN Raised("ValueError: unsupported frequency")
    ELSE IF Len(returns) = 0 THEN Raised("ZeroDivisionError")
    ELSE Returned(Round2(AnnualizedPct(returns, frequency)))

\* ------------------------------------------------- the period-return table
\* One cell of the table: a finite return, a missing value or an infinity
\* (pct_change of a zero price).
Cell(x) == [kind |-> "num", v |-> x]

Missing == [kind |-> "nan", v |-> 0]

Infinite == [kind |-> "inf", v |-> 0]

Assets == {"SPY", "EEM", "IWM"}

\* the historical column of each asset class
ColumnOf(asset) ==
    IF asset = "SPY" THEN <<Cell(-1000), Cell(2000), Missing, Cell(5000)>>
    ELSE IF asset = "EEM" THEN <<Cell(-900000), Cell(-100000)>>
    ELSE <<Cell(10000), Infinite, Cell(-10000)>>

RangeOf(s) == {s[i] : i \in 1..Len(s)}

\* tables: at least one column, the columns in order, without repetition
Tables ==
    {t \in UNION {[1..n -> Assets] : n \in 1..MaxCols} :
        \A i, j \in 1..Len(t) : i # j => t[i] # t[j]}

\* returns[asset].dropna()
DropNa(column) == SelectSeq(column, LAMBDA c : c.kind # "nan")

\* ------------------------------------------------- stats.johnsonsu.fit
RECURSIVE SumCells(_)
SumCells(sample) ==
    IF sample = <<>> THEN 0
    ELSE sample[1].v + SumCells(Tail(sample))

MinCell(sample) ==
    CHOOSE x \in {sample[i].v : i \in 1..Len(sample)} :
        \A i \in 1..Len(sample) : x <= sample[i].v

MaxCell(sample) ==
    CHOOSE x \in {sample[i].v : i \in 1..Len(sample)} :
        \A i \in 1..Len(sample) : x >= sample[i].v

\* the fit rejects a sample with a non-finite value
FitRaises(sample) == \E i \in 1..Len(sample) : sample[i].kind = "inf"

\* the fitted parameters, a function of the sample alone: location from its
\* centre, scale from its spread
JohnsonSuFit(sample) ==
    [gamma   |-> 0,
     delta   |-> Scale,
     xi      |-> SumCells(sample) \div Len(sample),
     lambda_ |-> (MaxCell(sample) - MinCell(sample)) \div 2]

\* ------------------------------------------------- np.random, johnsonsu.rvs
Seeds == {<<>>} \cup {<<s>> : s \in 0..MaxSeed}

\* np.random.seed(random_seed)
SeedState(s) == s % RngMod

\* one step of the generator
NextRng(x) == (5 * x + 3) % RngMod

\* the quantile of the fitted distribution a generator state selects, in
\* scales from the location
Quantiles == <<-2, -1, 0, 1>>

Variate(params, x) ==
    params.xi + params.lambda_ * Quantiles[(x * Len(Quantiles)) \div RngMod + 1]

RECURSIVE RngAfter(_, _)
RngAfter(x, n) == IF n = 0 THEN x ELSE RngAfter(NextRng(x), n - 1)

\* johnsonsu.rvs(gamma, delta, loc=xi, scale=lambda_, size=n): the n variates
\* of the n next states of the generator
RECURSIVE RvsFrom(_, _, _)
RvsFrom(params, x, n) ==
    IF n <= 0 THEN <<>>
    ELSE <<Variate(params, NextRng(x))>> \o RvsFrom(params, NextRng(x), n - 1)

Rvs(params, x, n) == RvsFrom(params, x, n)

\* a period return <= -1 in the path
HasTotalLoss(path) == \E i \in 1..Len(path) : path[i] <= -Scale

\* ------------------------------------------------- np.mean(...).round(2)
RECURSIVE SumVals(_)
SumVals(vals) ==
    IF vals = <<>> THEN 0 ELSE vals[1].v + SumVals(Tail(vals))

AnyNaN(vals) == \E i \in 1..Len(vals) : vals[i].nan

\* the mean of an empty list is NaN
MeanRounded(vals) ==
    IF vals = <<>> \/ AnyNaN(vals) THEN NaN
    ELSE Num(RoundHalfEven(SumVals(vals), Len(vals) * RoundUnit) * RoundUnit)

\* ---------------------------------------------------------------- state
VARIABLES
    pc,                     \* position in simulate_asset_class_returns_jsu
    returns,                \* argument: the table, its columns in order
    num_simulations,        \* argument
    num_years,              \* argument
    frequency,              \* argument
    random_seed,            \* argument: <<>> is None, <<s>> is the seed s
    rng,                    \* the state of the global np.random generator
    expected_returns,       \* the output frame, asset -> value
    col,                    \* index of the asset of the outer loop
    params,                 \* gamma, delta, xi, lambda_ of the current asset
    avg_annualized_returns, \* the per-path results of the current asset
    sim,                    \* number of passes of the inner loop made
    sampled_returns,        \* the path last drawn
    exc,                    \* the exception that left the function
    result,                 \* <<>> or <<the returned frame>>
    prev,                   \* the caller's copy of the previous call's result
    log,                    \* the calls made by the current run, in order
    failed,                 \* assets whose fit raised or whose path lost all
    a_returns,              \* direct call of annualize_returns: the returns
    a_frequency,            \* direct call: the frequency
    a_out,                  \* direct call: <<>> or <<outcome>>
    uses                    \* uses of the generator by other code in this run

vars == <<pc, returns, num_simulations, num_years, frequency, random_seed,
          rng, expected_returns, col, params, avg_annualized_returns, sim,
          sampled_returns, exc, result, prev, log, failed,
          a_returns, a_frequency, a_out, uses>>

args == <<returns, num_simulations, num_years, frequency, random_seed>>

locals == <<expected_returns, col, params, avg_annualized_returns, sim,
            sampled_returns>>

direct == <<a_returns, a_frequency, a_out>>

NoParams == [gamma |-> 0, delta |-> 0, xi |-> 0, lambda_ |-> 0]

Idle == {"idle", "done", "raised"}

asset == returns[col]

Init ==
    /\ pc = "idle"
    /\ returns = <<>>
    /\ num_simulations = 1
    /\ num_years = 1
    /\ frequency = "M"
    /\ random_seed = <<>>
    /\ rng \in 0..(RngMod - 1)
    /\ expected_returns = <<>>
    /\ col = 1
    /\ params = NoParams
    /\ avg_annualized_returns = <<>>
    /\ sim = 0
    /\ sampled_returns = <<>>
    /\ exc = "none"
    /\ result = <<>>
    /\ prev = <<>>
    /\ log = <<>>
    /\ failed = {}
    /\ a_returns = <<>>
    /\ a_frequency = "M"
    /\ a_out = <<>>
    /\ uses = 0

\* entry into the function
Enter ==
    /\ pc' = "seed"
    /\ expected_returns' = <<>>
    /\ col' = 1
    /\ params' = NoParams
    /\ avg_annualized_returns' = <<>>
    /\ sim' = 0
    /\ sampled_returns' = <<>>
    /\ exc' = "none"
    /\ result' = <<>>
    /\ log' = <<>>
    /\ failed' = {}
    /\ uses' = 0
    /\ UNCHANGED <<rng, direct>>

\* the caller invokes simulate for the first time
Call(t, ns, ny, f, s) ==
    /\ pc = "idle"
    /\ returns' = t
    /\ num_simulations' = ns
    /\ num_years' = ny
    /\ frequency' = f
    /\ random_seed' = s
    /\ prev' = <<>>
    /\ Enter

\* the caller keeps the returned frame and invokes simulate again with the
\* same arguments
CallAgain ==
    /\ pc = "done"
    /\ prev' = result
    /\ UNCHANGED args
    /\ Enter

\* lines 256-261 without the call of np.random.seed
SetSeedIgnoresSeed ==
    /\ pc = "seed"
    /\ expected_returns' = [a \in RangeOf(returns) |-> NaN]
    /\ pc' = IF returns = <<>> THEN "return" ELSE "fit"
    /\ UNCHANGED <<args, rng, col, params, avg_annualized_returns, sim,
                   sampled_returns, exc, result, prev, log, failed, direct, uses>>

\* lines 256-261: seed the global generator, create the output frame
SetSeed ==
    /\ pc = "seed"
    /\ rng' = IF random_seed # <<>> THEN SeedState(random_seed[1]) ELSE rng
    /\ expected_returns' = [a \in RangeOf(returns) |-> NaN]
    /\ pc' = IF returns = <<>> THEN "return" ELSE "fit"
    /\ UNCHANGED <<args, col, params, avg_annualized_returns, sim,
                   sampled_returns, exc, result, prev, log, failed, direct, uses>>

\* lines 264-272: next asset, dropna, fit, empty result list
Fit ==
    /\ pc = "fit"
    /\ log' = Append(log, <<"fit", asset>>)
    /\ LET ac_returns == DropNa(ColumnOf(asset))
       IN  IF FitRaises(ac_returns)
           THEN /\ pc' = "raised"
                /\ exc' = "ValueError: non-finite data"
                /\ failed' = failed \cup {asset}
                /\ UNCHANGED <<params, avg_annualized_returns>>
           ELSE /\ params' = JohnsonSuFit(ac_returns)
                /\ avg_annualized_returns' = <<>>
                /\ pc' = IF num_simulations > 0 THEN "sample" ELSE "aggregate"
                /\ UNCHANGED <<exc, failed>>
    /\ sim' = 0
    /\ UNCHANGED <<args, rng, expected_returns, col, sampled_returns, result,
                   prev, direct, uses>>

\* the size argument of line 277
PathLength == num_years * SampleMonths

\* line 277: draw one path from the global generator
Sample ==
    /\ pc = "sample"
    /\ log' = Append(log, <<"sample", asset>>)
    /\ IF PathLength < 0
       THEN /\ pc' = "raised"
            /\ exc' = "ValueError: negative dimensions"
            /\ UNCHANGED <<rng, sampled_returns, failed>>
       ELSE /\ sampled_returns' = Rvs(params, rng, PathLength)
            /\ rng' = RngAfter(rng, PathLength)
            /\ failed' = IF HasTotalLoss(sampled_returns')
                         THEN failed \cup {asset} ELSE failed
            /\ pc' = "annualize"
            /\ exc' = exc
    /\ UNCHANGED <<args, expected_returns, col, params,
                   avg_annualized_returns, sim, result, prev, direct, uses>>

\* lines 280-286 with an inner loop that makes one pass too many
AnnualizeOneTooMany ==
    /\ pc = "annualize"
    /\ log' = Append(log, <<"annualize", asset>>)
    /\ LET out == AnnualizeReturns(sampled_returns, frequency)
       IN  IF out.exc # "none"
           THEN /\ pc' = "raised"
                /\ exc' = out.exc
                /\ UNCHANGED <<avg_annualized_returns, sim>>
           ELSE /\ avg_annualized_returns' =
                       Append(avg_annualized_returns, out.val)
                /\ sim' = sim + 1
                /\ pc' = IF sim + 1 <= num_simulations THEN "sample"
                                                       ELSE "aggregate"
                /\ exc' = exc
    /\ UNCHANGED <<args, rng, expected_returns, col, params, sampled_returns,
                   result, prev, failed, direct, uses>>

\* lines 280-286: annualize the path and record the result
Annualize ==
    /\ pc = "annualize"
    /\ log' = Append(log, <<"annualize", asset>>)
    /\ LET out == AnnualizeReturns(sampled_returns, frequency)
       IN  IF out.exc # "none"
           THEN /\ pc' = "raised"
                /\ exc' = out.exc
                /\ UNCHANGED <<avg_annualized_returns, sim>>
           ELSE /\ avg_annualized_returns' =
                       Append(avg_annualized_returns, out.val)
                /\ sim' = sim + 1
                /\ pc' = IF sim + 1 < num_simulations THEN "sample"
                                                      ELSE "aggregate"
                /\ exc' = exc
    /\ UNCHANGED <<args, rng, expected_returns, col, params, sampled_returns,
                   result, prev, failed, direct, uses>>

\* line 289: the mean of the recorded results, rounded, into the frame
Aggregate ==
    /\ pc = "aggregate"
    /\ log' = Append(log, <<"write", asset>>)
    /\ expected_returns' =
           [expected_returns EXCEPT ![asset] = MeanRounded(avg_annualized_returns)]
    /\ col' = IF col < Len(returns) THEN col + 1 ELSE col
    /\ pc' = IF col < Len(returns) THEN "fit" ELSE "return"
    /\ UNCHANGED <<args, rng, params, avg_annualized_returns, sim,
                   sampled_returns, exc, result, prev, failed, direct, uses>>

\* line 291
Return ==
    /\ pc = "return"
    /\ result' = <<expected_returns>>
    /\ pc' = "done"
    /\ UNCHANGED <<args, rng, locals, exc, prev, log, failed, direct, uses>>

\* code outside the function draws from the global generator
AmbientDraw ==
    /\ rng' = NextRng(rng)
    /\ UNCHANGED <<pc, args, locals, exc, result, prev, log, failed, direct>>

\* code outside the function seeds the global generator
AmbientSeed(s) ==
    /\ rng' = SeedState(s)
    /\ UNCHANGED <<pc, args, locals, exc, result, prev, log, failed, direct>>

AmbientUse == AmbientDraw \/ \E s \in 0..MaxSeed : AmbientSeed(s)

Counts == (-1)..MaxSims

Years == (-1)..MaxYears

Simulate ==
    \/ SetSeed
    \/ Fit
    \/ Sample
    \/ Annualize
    \/ Aggregate
    \/ Return

Invoke ==
    \/ \E t \in Tables, ns \in Counts, ny \in Years, f \in Frequencies,
          s \in Seeds : Call(t, ns, ny, f, s)
    \/ CallAgain

\* other code runs only between the calls
AmbientBetweenCalls == pc \in Idle /\ AmbientUse /\ UNCHANGED uses

Next == Invoke \/ Simulate \/ AmbientBetweenCalls

Spec == Init /\ [][Next]_vars

\* seeded calls within the documented argument ranges
InvokeSeeded ==
    \E t \in Tables, ns \in 1..MaxSims, ny \in 1..MaxYears,
       f \in Supported, s \in Seeds \ {<<>>} : Call(t, ns, ny, f, s)

\* other code runs while the function runs, as another thread of the
\* process does
AmbientMidRun ==
    /\ pc \notin Idle
    /\ uses < MaxAmbient
    /\ AmbientUse
    /\ uses' = uses + 1

NextShared == InvokeSeeded \/ Simulate \/ AmbientBetweenCalls \/ AmbientMidRun

SpecShared == Init /\ [][NextShared]_vars

\* ----------------------------------- annualize_returns called on its own
PathValues == {-2 * Scale, -Scale, -4000, 0, 5000}

Paths == UNION {[1..n -> PathValues] : n \in 0..MaxLen}

InitDirect ==
    /\ pc = "idle"
    /\ returns = <<>>
    /\ num_simulations = 1
    /\ num_years = 1
    /\ frequency = "M"
    /\ random_seed = <<>>
    /\ rng = 0
    /\ expected_returns = <<>>
    /\ col = 1
    /\ params = NoParams
    /\ avg_annualized_returns = <<>>
    /\ sim = 0
    /\ sampled_returns = <<>>
    /\ exc = "none"
    /\ result = <<>>
    /\ prev = <<>>
    /\ log = <<>>
    /\ failed = {}
    /\ a_returns \in Paths
    /\ a_frequency \in Frequencies
    /\ a_out = <<>>
    /\ uses = 0

\* line 299: annualize_returns(returns, frequency)
DirectAnnualize ==
    /\ a_out = <<>>
    /\ a_out' = <<AnnualizeReturns(a_returns, a_frequency)>>
    /\ UNCHANGED <<pc, args, rng, locals, exc, result, prev, log, failed,
                   a_returns, a_frequency, uses>>

NextDirect == DirectAnnualize

SpecAnnualize == InitDirect /\ [][NextDirect]_vars

\* ================================================================ claims
Terminal == pc \in {"done", "raised"}

Running == pc # "idle"

FitCalls == Len(SelectSeq(log, LAMBDA e : e[1] = "fit"))

SampleCalls == Len(SelectSeq(log, LAMBDA e : e[1] = "sample"))

Writes == Len(SelectSeq(log, LAMBDA e : e[1] = "write"))

ValidConfig ==
    frequency \in Supported /\ num_simulations >= 1 /\ num_years >= 1

LastRate == avg_annualized_returns[Len(avg_annualized_returns)]

\* the asset whose entry line 289 wrote last
LastWritten == IF pc = "fit" THEN returns[col - 1] ELSE returns[col]

JustWritten ==
    \/ pc = "fit" /\ col > 1
    \/ pc \in {"return", "done"} /\ returns # <<>>

\* C1: with an unsupported frequency the run ends in the frequency error and
\* no fit and no sample is ever made.
C1_UnsupportedFrequencyFailsFast ==
    (Running /\ frequency \notin Supported) =>
        /\ FitCalls = 0
        /\ SampleCalls = 0
        /\ Terminal => (pc = "raised"
                        /\ exc = "ValueError: unsupported frequency")

\* C2: a failure of one asset class (its fit raises, or one of its paths has
\* a period return <= -1) does not abort the run: the run returns a frame in
\* which every other asset has a number and the failed asset a marker.
C2_FailureScopedToAsset ==
    (Terminal /\ ValidConfig /\ failed # {}) =>
        /\ pc = "done"
        /\ \A a \in RangeOf(returns) :
               IF a \in failed THEN expected_returns[a].nan
                               ELSE ~expected_returns[a].nan

\* C3: every path drawn has length num_years * periods_per_year of the
\* frequency argument.
C3_PathLengthFollowsFrequency ==
    (pc = "annualize" /\ frequency \in Supported) =>
        Len(sampled_returns) = num_years * PeriodsPerYear(frequency)

\* C4: annualize_returns of a path with a period return <= -1 raises
\* InvalidPathError and returns no number.
C4_TotalLossRaises ==
    (a_out # <<>> /\ a_frequency \in Supported /\ HasTotalLoss(a_returns)) =>
        a_out[1].exc = "InvalidPathError"

\* C5: a second call with the same arguments and the same non-null seed
\* returns the frame the first call returned, whatever the generator's state
\* before either call.
C5_SeededRunsReproduce ==
    (pc = "done" /\ random_seed # <<>> /\ prev # <<>>) => result = prev

C5_Witness ==
    /\ pc = "done"
    /\ random_seed # <<>>
    /\ prev # <<>>
    /\ num_simulations = MaxSims
    /\ \E a \in RangeOf(returns) : ~result[1][a].nan /\ result[1][a].v # 0

C7_NonPositiveCountFailsFast ==
    (Running /\ (num_simulations <= 0 \/ num_years <= 0)) =>
        /\ FitCalls = 0
        /\ SampleCalls = 0
        /\ Writes = 0
        /\ Terminal => pc = "raised"

\* C8: annualize_returns of a path of n >= 1 zero returns is exactly 0.0 for
\* each supported frequency.
C8_ZeroPathAnnualizesToZero ==
    (/\ a_out # <<>>
     /\ a_frequency \in Supported
     /\ Len(a_returns) >= 1
     /\ \A i \in 1..Len(a_returns) : a_returns[i] = 0) =>
        a_out[1] = Returned(Num(0))

C8_Witness ==
    /\ a_out # <<>>
    /\ a_frequency = "D"
    /\ Len(a_returns) >= 2
    /\ \A i \in 1..Len(a_returns) : a_returns[i] = 0

\* what a seeded run returns when only the run itself uses the generator:
\* the k results of one asset, drawn from the generator state x on
RECURSIVE RatesFrom(_, _, _, _, _)
RatesFrom(p, x, k, n, f) ==
    IF k <= 0 THEN <<>>
    ELSE <<AnnualizeReturns(Rvs(p, x, n), f).val>>
         \o RatesFrom(p, RngAfter(x, n), k - 1, n, f)

PositionOf(t, a) == CHOOSE i \in 1..Len(t) : t[i] = a

SeededFrame(t, ns, ny, f, s) ==
    [a \in RangeOf(t) |->
        MeanRounded(RatesFrom(JohnsonSuFit(DropNa(ColumnOf(a))),
                              RngAfter(SeedState(s),
                                       (PositionOf(t, a) - 1) * ns * ny * SampleMonths),
                              ns, ny * SampleMonths, f))]

\* C9: use of the generator by other code between the steps of a seeded run
\* does not change what the run returns: the frame is the one the seed, the
\* table and the counts determine.
C9_SeededOutputIsolated ==
    (pc = "done" /\ random_seed # <<>> /\ ValidConfig) =>
        result[1] = SeededFrame(returns, num_simulations, num_years,
                                frequency, random_seed[1])

\* the calls a completed run makes: for each column in order one fit, then
\* num_simulations times a sample followed by an annualize, then the write
RECURSIVE Pairs(_, _)
Pairs(a, k) ==
    IF k <= 0 THEN <<>>
    ELSE <<<<"sample", a>>, <<"annualize", a>>>> \o Pairs(a, k - 1)

RECURSIVE PipelineOf(_, _)
PipelineOf(t, k) ==
    IF t = <<>> THEN <<>>
    ELSE <<<<"fit", t[1]>>>> \o Pairs(t[1], k) \o <<<<"write", t[1]>>>>
         \o PipelineOf(Tail(t), k)

\* C10: a completed run processed the columns in table order, and for each
\* made one fit, then num_simulations sample-then-annualize pairs, then the
\* write of the entry.
C10_OrderedPipeline ==
    pc = "done" => log = PipelineOf(returns, num_simulations)

C10_Witness ==
    /\ pc = "done"
    /\ Len(returns) = 2
    /\ num_simulations = 2
    /\ Len(log) = 12

====
